---------------------------- MODULE Spec2Model ----------------------------
(***************************************************************************)
(* Model of the workflow activation registry (class ActiveWorkflows) and   *)
(* of the copy-on-write data wrapper (augmentObject / augmentArray).       *)
(*                                                                         *)
(* The registry is modelled at the granularity of the JavaScript event     *)
(* loop: every action is the code that runs between two `await`s.          *)
(***************************************************************************)
EXTENDS Integers, Sequences, FiniteSets, TLC

(***************************************************************************)
(* Bounds of the model.                                                    *)
(***************************************************************************)
NumIds == 2          \* workflow ids are 1..NumIds
MaxActs == 2         \* calls of add() over the whole run
MaxTriggers == 2     \* trigger nodes of one workflow
MaxPolls == 2        \* poll nodes of one workflow
MaxItems == 2        \* schedule items of one poll node
MaxFires == 1        \* firings of cron jobs over the whole run
MaxThrows == 1       \* trigger closeFunctions that throw over the whole run
MaxStops == 1        \* poll closeFunctions called by the holder of an entry
MaxNodes == 3        \* nodes of all the workflows passed to add()
MaxEmits == 1        \* poll results that are not null over the whole run

Ids == 1..NumIds

(***************************************************************************)
(* Strings are sequences of one-character strings, so that trim, split,    *)
(* join and includes are computed and not assumed.                         *)
(***************************************************************************)
DigitChars == <<"0", "1", "2", "3", "4", "5", "6", "7", "8", "9">>

\* Number.prototype.toString for the integers 0..99
NumToString(n) ==
    IF n < 10 THEN <<DigitChars[n + 1]>>
    ELSE <<DigitChars[(n \div 10) + 1], DigitChars[(n % 10) + 1]>>

RECURSIVE TrimStart(_)
TrimStart(s) ==
    IF s # <<>> /\ Head(s) = " " THEN TrimStart(Tail(s)) ELSE s

RECURSIVE TrimEnd(_)
TrimEnd(s) ==
    IF s # <<>> /\ s[Len(s)] = " " THEN TrimEnd(SubSeq(s, 1, Len(s) - 1)) ELSE s

\* String.prototype.trim
Trim(s) == TrimEnd(TrimStart(s))

RECURSIVE SplitFrom(_, _, _)
SplitFrom(s, sep, cur) ==
    IF s = <<>> THEN <<cur>>
    ELSE IF Head(s) = sep THEN <<cur>> \o SplitFrom(Tail(s), sep, <<>>)
    ELSE SplitFrom(Tail(s), sep, Append(cur, Head(s)))

\* String.prototype.split with a one-character separator
Split(s, sep) == SplitFrom(s, sep, <<>>)

RECURSIVE Join(_, _)
\* Array.prototype.join
Join(parts, sep) ==
    IF parts = <<>> THEN <<>>
    ELSE IF Len(parts) = 1 THEN parts[1]
    ELSE parts[1] \o sep \o Join(Tail(parts), sep)

\* String.prototype.includes for a one-character needle
Includes(s, c) == \E k \in 1..Len(s) : s[k] = c

(***************************************************************************)
(* Schedule items (ITriggerTime) and their compilation to cron times,      *)
(* activatePolling lines 114-164.                                          *)
(***************************************************************************)
parameterOrder == <<"second", "minute", "hour", "dayOfMonth", "month", "weekday">>

Star == <<"*">>
Sp == <<" ">>

\* the values Math.floor(Math.random() * 60) is drawn from in the model:
\* the least and the greatest value, one and two digits long
RandomSeconds == {0, 59}

NoFields == [p \in {} |-> <<>>]

CustomItem(expr) ==
    [mode |-> "custom", cronExpression |-> expr, unit |-> "", value |-> 0,
     fields |-> NoFields]
EveryMinuteItem ==
    [mode |-> "everyMinute", cronExpression |-> <<>>, unit |-> "", value |-> 0,
     fields |-> NoFields]
EveryXItem(u, v) ==
    [mode |-> "everyX", cronExpression |-> <<>>, unit |-> u, value |-> v,
     fields |-> NoFields]
FieldsItem(m, f) ==
    [mode |-> m, cronExpression |-> <<>>, unit |-> "", value |-> 0, fields |-> f]

\* One schedule item compiled with the random second r: the cron times it
\* pushes (none for an everyX item whose unit is neither minutes nor hours).
RECURSIVE FieldParts(_, _, _)
FieldParts(item, r, k) ==
    IF k > Len(parameterOrder) THEN <<>>
    ELSE LET parameterName == parameterOrder[k]
             part == IF parameterName \in DOMAIN item.fields
                        THEN item.fields[parameterName]
                     ELSE IF parameterName = "second" THEN NumToString(r)
                     ELSE Star
         IN  <<part>> \o FieldParts(item, r, k + 1)

CompileItem(item, r) ==
    IF item.mode = "custom" THEN <<Trim(item.cronExpression)>>
    ELSE IF item.mode = "everyMinute"
        THEN <<NumToString(r) \o Sp \o Star \o Sp \o Star \o Sp \o Star
                \o Sp \o Star \o Sp \o Star>>
    ELSE IF item.mode = "everyX"
        THEN IF item.unit = "minutes"
                THEN <<NumToString(r) \o Sp \o Star \o <<"/">>
                        \o NumToString(item.value) \o Sp \o Star \o Sp \o Star
                        \o Sp \o Star \o Sp \o Star>>
             ELSE IF item.unit = "hours"
                THEN <<NumToString(r) \o Sp \o <<"0">> \o Sp \o Star \o <<"/">>
                        \o NumToString(item.value) \o Sp \o Star \o Sp \o Star
                        \o Sp \o Star>>
             ELSE <<>>
    ELSE <<Join(FieldParts(item, r, 1), Sp)>>

RECURSIVE CompileCronTimes(_, _)
\* rs[k] is the random second drawn while item k is compiled
CompileCronTimes(items, rs) ==
    IF items = <<>> THEN <<>>
    ELSE CompileItem(Head(items), Head(rs)) \o CompileCronTimes(Tail(items), Tail(rs))

\* activatePolling line 184-185: the test that rejects a cron time
TooFrequent(cronTime) ==
    LET cronTimeParts == Split(cronTime, " ")
    IN  Len(cronTimeParts) > 0 /\ Includes(cronTimeParts[1], "*")

(***************************************************************************)
(* The schedule items the workflows of the model are built from.           *)
(***************************************************************************)
RestStars == Sp \o Star \o Sp \o Star \o Sp \o Star \o Sp \o Star \o Sp \o Star

ItemChoices ==
    { CustomItem(<<"7">> \o RestStars),                \* "7 * * * * *"
      CustomItem(Sp \o Star \o RestStars \o Sp),       \* " * * * * * * "
      CustomItem(Star \o <<"/", "2">> \o RestStars),   \* "*/2 * * * * *"
      EveryMinuteItem,
      EveryXItem("minutes", 5),
      FieldsItem("everyHour", [p \in {"minute"} |-> <<"3", "0">>]),
      FieldsItem("everyHour", [p \in {"second"} |-> Star]) }

SeqsUpTo(S, n) == UNION { [1..k -> S] : k \in 0..n }

Schedules == SeqsUpTo(ItemChoices, MaxItems)

\* what getNodeParameter('pollTimes') compiles to, over the schedules and the
\* random seconds of the model
CronTimeChoices ==
    { CompileCronTimes(items, rs) :
        items \in Schedules, rs \in [1..MaxItems -> RandomSeconds] }

(***************************************************************************)
(* State of the registry and of the resources it starts.                   *)
(*                                                                         *)
(* Every call of add() creates one entry object; entries, owner, status,   *)
(* listeners, timers and immediate are indexed by the number of            *)
(* that call.  workflowData maps an id to the entry object it currently    *)
(* holds, 0 when the id is no own property of the registry.                *)
(***************************************************************************)
VARIABLES
    workflowData,   \* [Ids -> 0..MaxActs]: this.workflowData
    entries,        \* the IWorkflowData objects ever created
    owner,          \* owner[a]: the id add() call a was made for
    status,         \* status[a]: "pending", or how add() call a ended
    listeners,      \* listeners[a]: the listeners started by trigger hooks
    timers,         \* timers[a]: the CronJobs created by activatePolling
    immediate,      \* immediate[a][n]: the direct executeTrigger() of poll node n
    emitted,        \* number of results passed to __emit
    add,            \* add[id]: the add(id) call in progress
    rem,            \* rem[id]: the remove(id) call in progress
    last,           \* the call that ended last, and how it ended
    nThrows,        \* trigger closeFunctions that have thrown
    nFires,         \* firings of cron jobs so far
    nStops,         \* poll closeFunctions called by the holder of an entry
    nNodes          \* nodes of the workflows passed to add() so far

\* The variables of the data wrappers, described with their actions below.
VARIABLES heap, root, regs, lastOp, nOps

augVars == <<heap, root, regs, lastOp, nOps>>

regVars == <<workflowData, entries, owner, status, listeners, timers, immediate, emitted,
             add, rem, last, nThrows, nFires, nStops, nNodes>>

IdleAdd == [pc |-> "idle", act |-> 0, nTrig |-> 0, nPoll |-> 0, i |-> 0,
            cronJobs |-> <<>>, pollResponses |-> 0]
IdleRem == [pc |-> "idle", entry |-> 0, i |-> 0]

\* the value of last when a call has ended with the given result, "pending"
\* standing for a call that has not ended; seq alternates, so that every end
\* of a call changes last
Ended(op, id, result) ==
    IF result = "pending" THEN last
    ELSE [op |-> op, id |-> id, result |-> result, seq |-> 1 - last.seq]

NewEntry == [triggerResponses |-> <<>>, hasPollResponses |-> FALSE,
             pollResponses |-> <<>>]

RegInit ==
    /\ workflowData = [id \in Ids |-> 0]
    /\ entries = <<>>
    /\ owner = <<>>
    /\ status = <<>>
    /\ listeners = <<>>
    /\ timers = <<>>
    /\ immediate = <<>>
    /\ emitted = 0
    /\ add = [id \in Ids |-> IdleAdd]
    /\ rem = [id \in Ids |-> IdleRem]
    /\ last = [op |-> "none", id |-> 0, result |-> "none", seq |-> 0]
    /\ nThrows = 0
    /\ nFires = 0
    /\ nStops = 0
    /\ nNodes = 0

(***************************************************************************)
(* The query operations.                                                   *)
(***************************************************************************)
isActive(id) == workflowData[id] # 0

allActiveWorkflows == { id \in Ids : workflowData[id] # 0 }

\* get(id): the stored entry object, <<>> standing for undefined
get(id) == IF workflowData[id] # 0 THEN <<entries[workflowData[id]]>> ELSE <<>>

(***************************************************************************)
(* add(): lines 71-92, cut at its awaits.                                  *)
(***************************************************************************)
\* activatePolling lines 181-190: the cron jobs created before the loop ends
\* or throws
RECURSIVE StartCronJobs(_)
StartCronJobs(cronTimes) ==
    IF cronTimes = <<>> THEN [started |-> 0, threw |-> FALSE]
    ELSE IF TooFrequent(Head(cronTimes)) THEN [started |-> 0, threw |-> TRUE]
    ELSE LET rest == StartCronJobs(Tail(cronTimes))
         IN  [started |-> 1 + rest.started, threw |-> rest.threw]

\* what lines 110-190 make of the pollTimes parameter of a node, over the
\* schedules of the model: how many cron jobs are started, and whether the
\* loop throws
CronJobChoices == { StartCronJobs(cronTimes) : cronTimes \in CronTimeChoices }

\* an activatePolling that starts the cron jobs without regard to the outcome
\* of the direct execution
ArmRegardless(outcome, jobs) ==
    [emit |-> IF outcome = "data" THEN 1 ELSE 0,
     started |-> jobs.started,
     error |-> IF outcome = "throw" THEN "PollError"
               ELSE IF jobs.threw THEN "TooFrequent" ELSE "none"]

\* activatePolling lines 169-201, from the completion of the awaited runPoll:
\* what is emitted, which cron jobs are started and how the call ends
ActivatePollingResume(outcome, jobs) ==
    IF outcome = "throw"
        THEN [emit |-> 0, started |-> 0, error |-> "PollError"]
    ELSE [emit |-> IF outcome = "data" THEN 1 ELSE 0,
          started |-> jobs.started,
          error |-> IF jobs.threw THEN "TooFrequent" ELSE "none"]

\* an add() that calls activatePolling for all its poll nodes at once
PollPhaseAtOnce(id, a, wd, ents, imm, nPoll) ==
    IF nPoll = 0 \/ wd[id] = 0
        THEN [entries |-> ents, immediate |-> imm, add |-> IdleAdd, result |-> "ok"]
    ELSE [entries |-> [ents EXCEPT ![wd[id]].hasPollResponses = TRUE,
                                   ![wd[id]].pollResponses = <<>>],
          immediate |-> [imm EXCEPT ![a] = @ \o [n \in 1..nPoll |-> "pending"]],
          add |-> [add[id] EXCEPT !.pc = "poll", !.act = a, !.nPoll = nPoll,
                                  !.i = 1, !.pollResponses = wd[id]],
          result |-> "pending"]

\* add() lines 85-89 and activatePolling up to its await of runPoll, for the
\* first poll node: the values of entries, immediate, add[id], and how the call ended.
\* wd, ents, imm are this.workflowData, the entry objects and the direct
\* executions as the step has left them so far.
PollPhase(id, a, wd, ents, imm, nPoll) ==
    IF nPoll = 0
        THEN [entries |-> ents, immediate |-> imm, add |-> IdleAdd, result |-> "ok"]
    ELSE IF wd[id] = 0
        THEN [entries |-> ents, immediate |-> imm, add |-> IdleAdd,
              result |-> "TypeError"]
    ELSE [entries |-> [ents EXCEPT ![wd[id]].hasPollResponses = TRUE,
                                   ![wd[id]].pollResponses = <<>>],
          immediate |-> [imm EXCEPT ![a] = Append(@, "pending")],
          add |-> [add[id] EXCEPT !.pc = "poll", !.act = a, !.nPoll = nPoll,
                                  !.i = 1, !.pollResponses = wd[id]],
          result |-> "pending"]

\* an add() that keeps the responses of the entry already stored for id
MergedEntry(wd, ents, id) == IF wd[id] # 0 THEN ents[wd[id]] ELSE NewEntry

\* add() line 72: this.workflowData[id] = {}, a new object whatever is stored
FreshEntry(wd, ents, id) == NewEntry

\* add() lines 72-78 (and on to line 89 for a workflow without trigger nodes):
\* the entry is created and the first hook is called
AddStart(overlap, id, nTrig, nPoll) ==
    /\ add[id].pc = "idle"
    /\ overlap \/ rem[id].pc = "idle"
    /\ Len(entries) < MaxActs
    /\ nTrig > 0 => nPoll = 0
    /\ nNodes + nTrig + nPoll <= MaxNodes
    /\ nNodes' = nNodes + nTrig + nPoll
    /\ LET a == Len(entries) + 1
           wd == [workflowData EXCEPT ![id] = a]
           ents == Append(entries, FreshEntry(workflowData, entries, id))
           imm == Append(immediate, <<>>)
           r == IF nTrig > 0
                  THEN [entries |-> ents, immediate |-> imm,
                        add |-> [IdleAdd EXCEPT !.pc = "trigger", !.act = a,
                                                !.nTrig = nTrig, !.i = 1],
                        result |-> "pending"]
                  ELSE PollPhase(id, a, wd, ents, imm, nPoll)
       IN  /\ workflowData' = wd
           /\ owner' = Append(owner, id)
           /\ status' = Append(status, r.result)
           /\ listeners' = Append(listeners, <<>>)
           /\ timers' = Append(timers, <<>>)
           /\ entries' = r.entries
           /\ immediate' = r.immediate
           /\ add' = [add EXCEPT ![id] = r.add]
           /\ last' = Ended("add", id, r.result)
    /\ UNCHANGED <<emitted, rem, nThrows, nFires, nStops>>
    /\ UNCHANGED augVars

\* an add() that stops the listeners it has started when a hook throws
StopStartedListeners(lis, a) ==
    [lis EXCEPT ![a] = [l \in DOMAIN @ |-> [@[l] EXCEPT !.running = FALSE]]]

\* add() lines 77-83 when the awaited runTrigger throws: the exception leaves
\* add(), which has no handler, so the listeners started for the earlier nodes
\* are left as they are
AfterHookThrows(lis, a) == lis

\* add() lines 78-83 (and on to line 89 after the last trigger node): the
\* awaited runTrigger settles.  outcome is what the node's hook did: it threw,
\* returned undefined, returned a response without closeFunction, or started a
\* listener and returned its closeFunction.
TriggerReturn(id, outcome, nPoll) ==
    /\ add[id].pc = "trigger"
    /\ (outcome = "throw" \/ add[id].i < add[id].nTrig) => nPoll = 0
    /\ nNodes + nPoll <= MaxNodes
    /\ nNodes' = nNodes + nPoll
    /\ LET a == add[id].act
           lis == IF outcome = "handle"
                    THEN [listeners EXCEPT ![a] =
                            Append(@, [running |-> TRUE, stops |-> 0])]
                  ELSE IF outcome = "throw"
                    THEN AfterHookThrows(listeners, a)
                    ELSE listeners
           response == [closeFunction |-> outcome = "handle", act |-> a,
                        listener |-> IF outcome = "handle" THEN Len(lis[a]) ELSE 0]
           pushes == outcome \in {"handle", "noClose"}
           ents == IF pushes /\ workflowData[id] # 0
                     THEN [entries EXCEPT ![workflowData[id]].triggerResponses =
                             Append(@, response)]
                     ELSE entries
           r == IF outcome = "throw"
                  THEN [entries |-> entries, immediate |-> immediate,
                        add |-> IdleAdd, result |-> "TriggerError"]
                ELSE IF pushes /\ workflowData[id] = 0
                  THEN [entries |-> entries, immediate |-> immediate,
                        add |-> IdleAdd, result |-> "TypeError"]
                ELSE IF add[id].i < add[id].nTrig
                  THEN [entries |-> ents, immediate |-> immediate,
                        add |-> [add[id] EXCEPT !.i = @ + 1], result |-> "pending"]
                ELSE PollPhase(id, a, workflowData, ents, immediate, nPoll)
       IN  /\ listeners' = lis
           /\ entries' = r.entries
           /\ immediate' = r.immediate
           /\ add' = [add EXCEPT ![id] = r.add]
           /\ last' = Ended("add", id, r.result)
           /\ status' = [status EXCEPT ![a] = r.result]
    /\ UNCHANGED <<workflowData, owner, timers, emitted, rem, nThrows,
                   nFires, nStops>>
    /\ UNCHANGED augVars

\* activatePolling lines 169-201: the awaited runPoll of the direct execution
\* settles; outcome is "throw", "null" or "data".  The cron times are compiled
\* from the node's pollTimes parameter before the await (lines 110-164): a
\* local of the call that nothing reads until line 183, so the model draws the
\* parameter in the step that reads it; jobs is what it leads to.
PollReturn(id, outcome, jobs) ==
    /\ add[id].pc = "poll"
    /\ outcome = "data" => emitted < MaxEmits
    /\ LET a == add[id].act
           n == add[id].i
           r == ActivatePollingResume(outcome, jobs)
           first == Len(timers[a])
           newTimers == [k \in 1..r.started |->
                           [node |-> n, running |-> TRUE, fires |-> 0, inflight |-> 0]]
       IN  /\ immediate' = [immediate EXCEPT ![a][n] =
                              IF outcome = "throw" THEN "threw" ELSE "done"]
           /\ emitted' = emitted + r.emit
           /\ timers' = [timers EXCEPT ![a] = @ \o newTimers]
           /\ IF r.error = "none"
                THEN /\ add' = [add EXCEPT ![id].pc = "push",
                                           ![id].cronJobs =
                                              [k \in 1..r.started |-> first + k]]
                     /\ UNCHANGED <<last, status>>
                ELSE /\ add' = [add EXCEPT ![id] = IdleAdd]
                     /\ last' = Ended("add", id, r.error)
                     /\ status' = [status EXCEPT ![a] = r.error]
    /\ UNCHANGED <<workflowData, entries, owner, listeners, rem, nThrows,
                   nFires, nStops, nNodes>>
    /\ UNCHANGED augVars

\* add() line 89 and the next turn of its loop: the awaited activatePolling has
\* returned its response.  this.workflowData[id].pollResponses.push was
\* evaluated before the argument, that is before the await, so the response is
\* pushed onto the array read then, add[id].pollResponses, whatever is stored for
\* id now.  The next turn reads this.workflowData[id].pollResponses.push anew,
\* and activates the next poll node up to its await of runPoll.
PollPush(id) ==
    /\ add[id].pc = "push"
    /\ LET a == add[id].act
           e == workflowData[id]
           response == [cronJobs |-> add[id].cronJobs, act |-> a, stops |-> 0]
           ents == [entries EXCEPT ![add[id].pollResponses].pollResponses =
                                      Append(@, response)]
       IN  /\ entries' = ents
           /\ IF add[id].i = add[id].nPoll
                THEN /\ add' = [add EXCEPT ![id] = IdleAdd]
                     /\ last' = Ended("add", id, "ok")
                     /\ status' = [status EXCEPT ![a] = "ok"]
                     /\ UNCHANGED immediate
              ELSE IF e = 0 \/ ~ents[IF e = 0 THEN a ELSE e].hasPollResponses
                THEN /\ add' = [add EXCEPT ![id] = IdleAdd]
                     /\ last' = Ended("add", id, "TypeError")
                     /\ status' = [status EXCEPT ![a] = "TypeError"]
                     /\ UNCHANGED immediate
                ELSE /\ add' = [add EXCEPT ![id].pc = "poll",
                                           ![id].i = @ + 1,
                                           ![id].cronJobs = <<>>,
                                           ![id].pollResponses = e]
                     /\ immediate' = [immediate EXCEPT ![a] = Append(@, "pending")]
                     /\ UNCHANGED <<last, status>>
    /\ UNCHANGED <<workflowData, owner, listeners, timers, emitted, rem,
                   nThrows, nFires, nStops, nNodes>>
    /\ UNCHANGED augVars

(***************************************************************************)
(* remove(): lines 212-237, cut at its awaits.                             *)
(***************************************************************************)
\* loops that call the closeFunctions of the trigger responses only
TriggerStopsOnly(ents, e, phase, i) ==
    LET trig == ents[e].triggerResponses
        later == IF phase = "trigger"
                   THEN { j \in (i + 1)..Len(trig) : trig[j].closeFunction }
                   ELSE {}
    IN  IF later # {}
          THEN [phase |-> "trigger",
                i |-> CHOOSE j \in later : \A k \in later : j <= k]
          ELSE [phase |-> "done", i |-> 0]

\* The next closeFunction the two loops of remove() reach after position i of
\* the given phase, in the entry object e as it is now; "done" when the loops
\* are over.
NextStop(ents, e, phase, i) ==
    LET trig == ents[e].triggerResponses
        poll == ents[e].pollResponses
        later == IF phase = "trigger"
                   THEN { j \in (i + 1)..Len(trig) : trig[j].closeFunction }
                   ELSE {}
    IN  IF later # {}
          THEN [phase |-> "trigger",
                i |-> CHOOSE j \in later : \A k \in later : j <= k]
        ELSE IF phase = "trigger"
          THEN IF ents[e].hasPollResponses /\ Len(poll) > 0
                 THEN [phase |-> "poll", i |-> 1]
                 ELSE [phase |-> "done", i |-> 0]
        ELSE IF i < Len(poll)
          THEN [phase |-> "poll", i |-> i + 1]
        ELSE [phase |-> "done", i |-> 0]

\* a closeFunction that stops the first cron job only
FirstJobOnly(cronJobs) == IF cronJobs = <<>> THEN {} ELSE {cronJobs[1]}

\* closeFunction of activatePolling, lines 193-197: every cron job of the
\* response is stopped
StoppedJobs(cronJobs) == { cronJobs[k] : k \in 1..Len(cronJobs) }

\* The closeFunction at stop position s of entry object e is called: a trigger
\* closeFunction starts to run, a poll closeFunction stops its cron jobs
\* before it returns its promise.  The values of listeners, timers, entries,
\* lis being the listeners as the step has left them so far.
Invoke(lis, ents, e, s) ==
    IF s.phase = "trigger"
      THEN LET h == ents[e].triggerResponses[s.i]
           IN  [listeners |-> [lis EXCEPT ![h.act][h.listener].stops = @ + 1],
                timers |-> timers, entries |-> ents]
    ELSE IF s.phase = "poll"
      THEN LET h == ents[e].pollResponses[s.i]
           IN  [listeners |-> lis,
                timers |-> [timers EXCEPT ![h.act] =
                              [t \in DOMAIN @ |->
                                 IF t \in StoppedJobs(h.cronJobs)
                                   THEN [@[t] EXCEPT !.running = FALSE]
                                   ELSE @[t]]],
                entries |-> [ents EXCEPT ![e].pollResponses[s.i].stops = @ + 1]]
    ELSE [listeners |-> lis, timers |-> timers, entries |-> ents]

\* a remove() that leaves the entry in place
KeepEntry(wd, id) == wd

\* remove() line 236: delete this.workflowData[id]
DeleteEntry(wd, id) == [wd EXCEPT ![id] = 0]

\* a remove() that deletes the entry although a closeFunction has thrown
DeleteAfterThrow(wd, id) == [wd EXCEPT ![id] = 0]

\* remove() lines 221-236 when an awaited closeFunction throws: the exception
\* leaves the function, and line 236 is not reached
AfterThrow(wd, id) == wd

\* remove() lines 213-236 up to its first await
RemoveStart(overlap, id) ==
    /\ rem[id].pc = "idle"
    /\ overlap \/ add[id].pc = "idle"
    /\ IF ~isActive(id)
         THEN /\ last' = Ended("remove", id, "NotActive")
              /\ UNCHANGED <<workflowData, entries, listeners, timers, rem>>
         ELSE LET e == workflowData[id]
                  s == NextStop(entries, e, "trigger", 0)
                  r == Invoke(listeners, entries, e, s)
              IN  /\ listeners' = r.listeners
                  /\ timers' = r.timers
                  /\ entries' = r.entries
                  /\ IF s.phase = "done"
                       THEN /\ workflowData' = DeleteEntry(workflowData, id)
                            /\ last' = Ended("remove", id, "ok")
                            /\ UNCHANGED rem
                       ELSE /\ rem' = [rem EXCEPT ![id] =
                                         [pc |-> s.phase, entry |-> e, i |-> s.i]]
                            /\ last' = Ended("remove", id, "pending")
                            /\ UNCHANGED workflowData
    /\ UNCHANGED <<owner, status, immediate, emitted, add, nThrows, nFires,
                   nStops, nNodes>>
    /\ UNCHANGED augVars

\* remove() lines 221-236 from the settling of an awaited closeFunction to the
\* next await: a trigger closeFunction has either thrown or released its
\* listener; the loops go on to the next closeFunction or to the delete.
RemoveResume(id, throws) ==
    /\ rem[id].pc # "idle"
    /\ throws => (rem[id].pc = "trigger" /\ nThrows < MaxThrows)
    /\ LET e == rem[id].entry
           h == entries[e].triggerResponses[rem[id].i]
           lis == IF rem[id].pc = "trigger" /\ ~throws
                    THEN [listeners EXCEPT ![h.act][h.listener].running = FALSE]
                    ELSE listeners
       IN  IF throws
             THEN /\ nThrows' = nThrows + 1
                  /\ rem' = [rem EXCEPT ![id] = IdleRem]
                  /\ last' = Ended("remove", id, "StopError")
                  /\ workflowData' = AfterThrow(workflowData, id)
                  /\ UNCHANGED <<entries, listeners, timers>>
             ELSE LET s == NextStop(entries, e, rem[id].pc, rem[id].i)
                      r == Invoke(lis, entries, e, s)
                  IN  /\ listeners' = r.listeners
                      /\ timers' = r.timers
                      /\ entries' = r.entries
                      /\ UNCHANGED nThrows
                      /\ IF s.phase = "done"
                           THEN /\ workflowData' = DeleteEntry(workflowData, id)
                                /\ rem' = [rem EXCEPT ![id] = IdleRem]
                                /\ last' = Ended("remove", id, "ok")
                           ELSE /\ rem' = [rem EXCEPT ![id].pc = s.phase,
                                                      ![id].i = s.i]
                                /\ UNCHANGED <<workflowData, last>>
    /\ UNCHANGED <<owner, status, immediate, emitted, add, nFires, nStops,
                   nNodes>>
    /\ UNCHANGED augVars

(***************************************************************************)
(* The environment: cron jobs fire, and the holder of an entry obtained    *)
(* through get(id) calls the closeFunction of one of its poll responses.   *)
(***************************************************************************)
\* a running CronJob fires: executeTrigger, lines 167-169, up to its await
TimerFire(a, t) ==
    /\ a \in DOMAIN timers
    /\ t \in DOMAIN timers[a]
    /\ timers[a][t].running
    /\ nFires < MaxFires
    /\ nFires' = nFires + 1
    /\ timers' = [timers EXCEPT ![a][t].fires = @ + 1, ![a][t].inflight = @ + 1]
    /\ UNCHANGED <<workflowData, entries, owner, status, listeners, immediate, emitted,
                   add, rem, last, nThrows, nStops, nNodes>>
    /\ UNCHANGED augVars

\* executeTrigger lines 169-173 of a firing: runPoll settles, a result that is
\* not null is emitted
TimerFireEnd(a, t, data) ==
    /\ a \in DOMAIN timers
    /\ t \in DOMAIN timers[a]
    /\ timers[a][t].inflight > 0
    /\ data => emitted < MaxEmits
    /\ timers' = [timers EXCEPT ![a][t].inflight = @ - 1]
    /\ emitted' = emitted + IF data THEN 1 ELSE 0
    /\ UNCHANGED <<workflowData, entries, owner, status, listeners, immediate,
                   add, rem, last, nThrows, nFires, nStops, nNodes>>
    /\ UNCHANGED augVars

\* get(id).pollResponses[j].closeFunction()
StopHandle(id, j) ==
    /\ isActive(id)
    /\ LET e == workflowData[id]
       IN  /\ entries[e].hasPollResponses
           /\ j \in DOMAIN entries[e].pollResponses
           /\ nStops < MaxStops
           /\ nStops' = nStops + 1
           /\ LET r == Invoke(listeners, entries, e, [phase |-> "poll", i |-> j])
              IN  /\ timers' = r.timers
                  /\ entries' = r.entries
    /\ UNCHANGED <<workflowData, owner, status, listeners, immediate, emitted,
                   add, rem, last, nThrows, nFires, nNodes>>
    /\ UNCHANGED augVars

TriggerOutcomes == {"throw", "undefined", "noClose", "handle"}
PollOutcomes == {"throw", "null", "data"}

(***************************************************************************)
(* The copy-on-write wrapper, AugmentObject.ts.                            *)
(*                                                                         *)
(* JavaScript objects live in a heap, a sequence of objects addressed by   *)
(* their position.  The values of the model are undefined, numbers and     *)
(* references to plain objects, arrays and proxies.  Reflect* are the      *)
(* internal methods of an object ([[Get]], [[Set]], [[Delete]],            *)
(* [[HasProperty]], [[OwnPropertyKeys]]); on a proxy they run the trap the *)
(* handler defines, and the target's method when it defines none.          *)
(* Property keys are strings, those of array elements the index strings.   *)
(***************************************************************************)
MaxOps == 4          \* operations of the consumers on their wrappers
MaxNew == 1          \* objects a consumer makes itself

Undef == [t |-> "undefined", v |-> 0]
Num(n) == [t |-> "number", v |-> n]
Ref(a) == [t |-> "object", v |-> a]
Hole == [t |-> "hole", v |-> 0]

Names == {"a", "o"}
IndexKeys == <<"0", "1", "2">>

IsIndex(key) == \E i \in DOMAIN IndexKeys : IndexKeys[i] = key
\* the position in elems of the element with the given index key
Index(key) == CHOOSE i \in DOMAIN IndexKeys : IndexKeys[i] = key

NoProps == [k \in {} |-> Undef]
Blank == [kind |-> "", props |-> NoProps, elems |-> <<>>, target |-> 0,
          data |-> 0, deleted |-> <<>>]
PlainObject(props) == [Blank EXCEPT !.kind = "object", !.props = props]
PlainArray(elems) == [Blank EXCEPT !.kind = "array", !.elems = elems]

\* Array.prototype.indexOf(key) !== -1
Contains(s, key) == \E i \in DOMAIN s : s[i] = key

\* Array.prototype.splice(indexOf(key), 1): the first occurrence is removed
RemoveFirst(s, key) ==
    IF ~Contains(s, key) THEN s
    ELSE LET deleteIndex == CHOOSE i \in DOMAIN s :
                                s[i] = key /\ \A j \in 1..(i - 1) : s[j] # key
         IN  SubSeq(s, 1, deleteIndex - 1) \o SubSeq(s, deleteIndex + 1, Len(s))

WithProp(props, key, value) ==
    [k \in DOMAIN props \cup {key} |-> IF k = key THEN value ELSE props[k]]
WithoutProp(props, key) == [k \in DOMAIN props \ {key} |-> props[k]]

\* util.types.isProxy
isProxy(h, a) == h[a].kind \in {"proxy", "aproxy", "tproxy"}

\* augmentObject lines 76-80: the closure's newData object and the proxy
AugmentObjectNew(h, data) ==
    LET h1 == Append(h, PlainObject(NoProps))
    IN  [heap |-> Append(h1, [Blank EXCEPT !.kind = "proxy", !.target = data,
                                            !.data = Len(h1)]),
         value |-> Ref(Len(h1) + 1)]

\* augmentArray lines 22-32: the proxy, its newData still undefined
AugmentArrayNew(h, data) ==
    [heap |-> Append(h, [Blank EXCEPT !.kind = "aproxy", !.target = data]),
     value |-> Ref(Len(h) + 1)]

\* augment lines 4-20, for the values of the model
Augment(h, value) ==
    IF value.t # "object" \/ isProxy(h, value.v) THEN [heap |-> h, value |-> value]
    ELSE IF h[value.v].kind = "array" THEN AugmentArrayNew(h, value.v)
    ELSE AugmentObjectNew(h, value.v)

RECURSIVE ReflectHas(_, _, _)
RECURSIVE ReflectOwnKeys(_, _)
RECURSIVE ReflectGet(_, _, _)
RECURSIVE ReflectSet(_, _, _, _)
RECURSIVE ReflectDelete(_, _, _)
RECURSIVE LengthOf(_, _)

\* the object the traps of an array proxy work on: newData !== undefined ?
\* newData : target
ArraySource(h, a) == IF h[a].data # 0 THEN h[a].data ELSE h[a].target

\* the length of an array or of a proxy of one
LengthOf(h, a) ==
    IF h[a].kind = "array" THEN Len(h[a].elems)
    ELSE IF h[a].kind = "aproxy" THEN LengthOf(h, ArraySource(h, a))
    ELSE IF h[a].kind = "tproxy" THEN LengthOf(h, h[a].target)
    ELSE 0

\* key in object.  augmentObject defines no has trap (lines 80-143), so that
\* its proxy answers for its target; augmentArray's has is lines 56-58.
ReflectHas(h, a, key) ==
    IF h[a].kind = "object" THEN key \in DOMAIN h[a].props
    ELSE IF h[a].kind = "array"
        THEN IsIndex(key) /\ Index(key) <= Len(h[a].elems)
                /\ h[a].elems[Index(key)] # Hole
    ELSE IF h[a].kind = "aproxy" THEN ReflectHas(h, ArraySource(h, a), key)
    ELSE ReflectHas(h, h[a].target, key)

\* an ownKeys trap that leaves the deleted keys in
ObjectOwnKeysAll(h, a) ==
    ReflectOwnKeys(h, h[a].target) \cup DOMAIN h[h[a].data].props

\* augmentObject ownKeys, lines 130-134
ObjectOwnKeys(h, a) ==
    { key \in ReflectOwnKeys(h, h[a].target) \cup DOMAIN h[h[a].data].props :
        ~Contains(h[a].deleted, key) }

\* Reflect.ownKeys, without the length of an array; augmentArray's ownKeys is
\* lines 59-61
ReflectOwnKeys(h, a) ==
    IF h[a].kind = "object" THEN DOMAIN h[a].props
    ELSE IF h[a].kind = "array"
        THEN { IndexKeys[i] : i \in { j \in DOMAIN h[a].elems : h[a].elems[j] # Hole } }
    ELSE IF h[a].kind = "proxy" THEN ObjectOwnKeys(h, a)
    ELSE IF h[a].kind = "aproxy" THEN ReflectOwnKeys(h, ArraySource(h, a))
    ELSE ReflectOwnKeys(h, h[a].target)

RECURSIVE SpreadFrom(_, _, _)
\* [...data]: the elements the iteration of data yields from position i on
SpreadFrom(h, a, i) ==
    IF i > LengthOf(h, a) THEN <<>>
    ELSE <<ReflectGet(h, a, IndexKeys[i]).value>> \o SpreadFrom(h, a, i + 1)

\* getData lines 25-30: newData = [...data] on first use
GetData(h, a) ==
    IF h[a].data # 0 THEN h
    ELSE LET h1 == Append(h, PlainArray(SpreadFrom(h, h[a].target, 1)))
         IN  [h1 EXCEPT ![a].data = Len(h1)]

\* a get trap that augments the value it reads and does not keep the result
ObjectGetAfresh(h, a, key) ==
    IF Contains(h[a].deleted, key) THEN [heap |-> h, value |-> Undef]
    ELSE LET own == ReflectGet(h, h[a].data, key).value
         IN  IF own # Undef THEN [heap |-> h, value |-> own]
             ELSE LET r == ReflectGet(h, h[a].target, key)
                  IN  Augment(r.heap, r.value)

\* augmentObject get, lines 81-99
ObjectGet(h, a, key) ==
    IF Contains(h[a].deleted, key) THEN [heap |-> h, value |-> Undef]
    ELSE LET newData == h[a].data
             own == ReflectGet(h, newData, key).value
         IN  IF own # Undef THEN [heap |-> h, value |-> own]
             ELSE LET r == ReflectGet(h, h[a].target, key)
                      n == Augment(r.heap, r.value)
                  IN  IF n.value # r.value
                        THEN [heap |-> ReflectSet(n.heap, newData, key, n.value),
                              value |-> n.value]
                        ELSE r

\* augmentArray get, lines 36-45
ArrayGet(h, a, key) ==
    LET r == ReflectGet(h, ArraySource(h, a), key)
        n == Augment(r.heap, r.value)
    IN  IF n.value # r.value
          THEN LET h1 == GetData(n.heap, a)
               IN  [heap |-> ReflectSet(h1, h1[a].data, key, n.value),
                    value |-> n.value]
          ELSE r

\* Reflect.get: the heap after the read and the value read
ReflectGet(h, a, key) ==
    IF h[a].kind = "object"
        THEN [heap |-> h,
              value |-> IF key \in DOMAIN h[a].props THEN h[a].props[key] ELSE Undef]
    ELSE IF h[a].kind = "array"
        THEN [heap |-> h,
              value |-> IF ReflectHas(h, a, key) THEN h[a].elems[Index(key)]
                        ELSE Undef]
    ELSE IF h[a].kind = "proxy" THEN ObjectGet(h, a, key)
    ELSE IF h[a].kind = "aproxy" THEN ArrayGet(h, a, key)
    ELSE ReflectGet(h, h[a].target, key)

\* augmentObject deleteProperty, lines 100-109 (and set lines 112-118)
ObjectDelete(h, a, key) ==
    LET newData == h[a].data
        h1 == IF key \in DOMAIN h[newData].props
                THEN [h EXCEPT ![newData].props = WithoutProp(@, key)]
                ELSE h
    IN  IF ReflectHas(h, h[a].target, key)
          THEN [h1 EXCEPT ![a].deleted = Append(@, key)]
          ELSE h1

\* a set trap that writes to the wrapped object itself
ObjectSetThrough(h, a, key, newValue) == ReflectSet(h, h[a].target, key, newValue)

\* augmentObject set, lines 110-129
ObjectSet(h, a, key, newValue) ==
    IF newValue = Undef THEN ObjectDelete(h, a, key)
    ELSE [h EXCEPT ![h[a].data].props = WithProp(@, key, newValue),
                   ![a].deleted = RemoveFirst(@, key)]

\* augmentArray set, lines 62-72
ArraySet(h, a, key, newValue) ==
    LET h0 == IF newValue.t = "object"
                THEN Append(h, [Blank EXCEPT !.kind = "tproxy",
                                             !.target = newValue.v])
                ELSE h
        stored == IF newValue.t = "object" THEN Ref(Len(h0)) ELSE newValue
        h1 == GetData(h0, a)
    IN  ReflectSet(h1, h1[a].data, key, stored)

\* augmentArray deleteProperty, lines 33-35
ArrayDelete(h, a, key) ==
    LET h1 == GetData(h, a)
    IN  ReflectDelete(h1, h1[a].data, key)

\* Reflect.set: the heap after the write.  An array takes an element at an
\* index up to its length.
ReflectSet(h, a, key, value) ==
    IF h[a].kind = "object" THEN [h EXCEPT ![a].props = WithProp(@, key, value)]
    ELSE IF h[a].kind = "array"
        THEN IF IsIndex(key) /\ Index(key) <= Len(h[a].elems)
                THEN [h EXCEPT ![a].elems[Index(key)] = value]
             ELSE IF IsIndex(key) /\ Index(key) = Len(h[a].elems) + 1
                THEN [h EXCEPT ![a].elems = Append(@, value)]
             ELSE h
    ELSE IF h[a].kind = "proxy" THEN ObjectSet(h, a, key, value)
    ELSE IF h[a].kind = "aproxy" THEN ArraySet(h, a, key, value)
    ELSE ReflectSet(h, h[a].target, key, value)

\* Reflect.deleteProperty: the heap after the delete
ReflectDelete(h, a, key) ==
    IF h[a].kind = "object" THEN [h EXCEPT ![a].props = WithoutProp(@, key)]
    ELSE IF h[a].kind = "array"
        THEN IF ReflectHas(h, a, key)
                THEN [h EXCEPT ![a].elems[Index(key)] = Hole]
                ELSE h
    ELSE IF h[a].kind = "proxy" THEN ObjectDelete(h, a, key)
    ELSE IF h[a].kind = "aproxy" THEN ArrayDelete(h, a, key)
    ELSE ReflectDelete(h, h[a].target, key)


(***************************************************************************)
(* State of the wrappers.                                                  *)
(*                                                                         *)
(* Two consumers, A and B, each wrap the same original value and then work *)
(* on their wrapper and on the nested wrappers that reading it hands them. *)
(* regs[c] holds the objects consumer c has a reference to.  A reads,      *)
(* writes and deletes; B reads.                                            *)
(*                                                                         *)
(*   heap    the objects, by address                                       *)
(*   root    the address of the original value wrapped, 0 before Wrap      *)
(*   regs    consumer -> addresses of the objects it holds                 *)
(*   lastOp  the last operation of a consumer, and the value it read       *)
(*   nOps    operations so far                                             *)
(***************************************************************************)
Consumers == {"A", "B"}

\* The original value: a mapping that holds a sequence that holds a mapping.
Original ==
    << PlainObject([k \in {"a", "o"} |-> IF k = "a" THEN Num(1) ELSE Ref(2)]),
       PlainArray(<<Num(1), Ref(3)>>),
       PlainObject([k \in {"a"} |-> Num(1)]) >>

\* the values wrapped at top level: the mapping, or the sequence
Roots == {1, 2}

NoOp == [by |-> "", op |-> "", ref |-> 0, key |-> "", value |-> Undef]

AugInit ==
    /\ heap = Original
    /\ root = 0
    /\ regs = [c \in Consumers |-> {}]
    /\ lastOp = NoOp
    /\ nOps = 0

RECURSIVE IsArrayLike(_, _)
\* Array.isArray, which looks through proxies
IsArrayLike(h, a) ==
    \/ h[a].kind \in {"array", "aproxy"}
    \/ h[a].kind = "tproxy" /\ IsArrayLike(h, h[a].target)

\* the keys a consumer uses on an object: the names on a mapping, the indices
\* up to the length on a sequence
KeysFor(h, a) ==
    IF IsArrayLike(h, a)
        THEN { IndexKeys[i] : i \in { j \in DOMAIN IndexKeys : j <= LengthOf(h, a) + 1 } }
        ELSE Names

\* the values A writes: undefined, a number the original does not hold, or an
\* object it has a reference to
Written == {Undef, Num(2)} \cup { Ref(a) : a \in regs["A"] }

\* both consumers call augment(original)
Wrap(r) ==
    /\ root = 0
    /\ LET a == Augment(heap, Ref(r))
           b == Augment(a.heap, Ref(r))
       IN  /\ heap' = b.heap
           /\ regs' = [c \in Consumers |->
                          IF c = "A" THEN {a.value.v} ELSE {b.value.v}]
    /\ root' = r
    /\ UNCHANGED <<lastOp, nOps>>
    /\ UNCHANGED regVars

\* consumer c evaluates object[key]
Read(c, a, key) ==
    /\ root # 0 /\ nOps < MaxOps
    /\ a \in regs[c] /\ key \in KeysFor(heap, a)
    /\ LET r == ReflectGet(heap, a, key)
       IN  /\ heap' = r.heap
           /\ regs' = [regs EXCEPT ![c] =
                          IF r.value.t = "object" THEN @ \cup {r.value.v} ELSE @]
           /\ lastOp' = [by |-> c, op |-> "get", ref |-> a, key |-> key,
                         value |-> r.value]
    /\ nOps' = nOps + 1
    /\ UNCHANGED root
    /\ UNCHANGED regVars

\* consumer c evaluates object[key] = value
Write(c, a, key, value) ==
    /\ root # 0 /\ nOps < MaxOps
    /\ a \in regs[c] /\ key \in KeysFor(heap, a)
    /\ heap' = ReflectSet(heap, a, key, value)
    /\ lastOp' = [by |-> c, op |-> "set", ref |-> a, key |-> key, value |-> value]
    /\ nOps' = nOps + 1
    /\ UNCHANGED <<root, regs>>
    /\ UNCHANGED regVars

\* consumer c evaluates delete object[key]
Delete(c, a, key) ==
    /\ root # 0 /\ nOps < MaxOps
    /\ a \in regs[c] /\ key \in KeysFor(heap, a)
    /\ heap' = ReflectDelete(heap, a, key)
    /\ lastOp' = [by |-> c, op |-> "delete", ref |-> a, key |-> key, value |-> Undef]
    /\ nOps' = nOps + 1
    /\ UNCHANGED <<root, regs>>
    /\ UNCHANGED regVars

\* the objects consumer c has made itself: every other object it holds is a
\* proxy that a read or augment() has handed to it
CallerObjects(c) == { a \in regs[c] : heap[a].kind \in {"object", "array"} }

\* consumer c makes an object of its own, { a: 1 }, the newValue of a later
\* object[key] = newValue
New(c) ==
    /\ root # 0
    /\ Cardinality(CallerObjects(c)) < MaxNew
    /\ heap' = Append(heap, PlainObject([k \in {"a"} |-> Num(1)]))
    /\ regs' = [regs EXCEPT ![c] = @ \cup {Len(heap) + 1}]
    /\ lastOp' = [by |-> c, op |-> "new", ref |-> Len(heap) + 1, key |-> "",
                  value |-> Ref(Len(heap) + 1)]
    /\ UNCHANGED <<root, nOps>>
    /\ UNCHANGED regVars

AllKeys == Names \cup { IndexKeys[i] : i \in DOMAIN IndexKeys }

AugNext ==
    \/ \E r \in Roots : Wrap(r)
    \/ \E c \in Consumers : \E a \in regs[c], key \in AllKeys : Read(c, a, key)
    \/ \E a \in regs["A"], key \in AllKeys, value \in Written : Write("A", a, key, value)
    \/ \E a \in regs["A"], key \in AllKeys : Delete("A", a, key)
    \/ New("A")

(***************************************************************************)
(* Specifications of the registry.                                         *)
(*                                                                         *)
(* Spec: the calls of add() and remove() of the activation service, those  *)
(* on one id one after the other (one logical thread of control per        *)
(* workflow), those on different ids interleaved at every await.           *)
(*                                                                         *)
(* SpecTimers: workflows made of poll nodes only, together with the cron   *)
(* jobs firing and with the holder of an entry calling closeFunctions.     *)
(* No step of the cron jobs reads or writes the registry, so that Spec     *)
(* loses no registry behaviour by leaving them out.                        *)
(***************************************************************************)
Calls(overlap) ==
    \/ \E id \in Ids, nTrig \in 0..MaxTriggers, nPoll \in 0..MaxPolls :
            AddStart(overlap, id, nTrig, nPoll)
    \/ \E id \in Ids, outcome \in TriggerOutcomes, nPoll \in 0..MaxPolls :
            TriggerReturn(id, outcome, nPoll)
    \/ \E id \in Ids, outcome \in PollOutcomes, jobs \in CronJobChoices :
            PollReturn(id, outcome, jobs)
    \/ \E id \in Ids : PollPush(id)
    \/ \E id \in Ids : RemoveStart(overlap, id)
    \/ \E id \in Ids, throws \in BOOLEAN : RemoveResume(id, throws)

RegNext == Calls(FALSE)

TimersNext ==
    \/ \E id \in Ids, nPoll \in 0..MaxPolls : AddStart(FALSE, id, 0, nPoll)
    \/ \E id \in Ids, outcome \in PollOutcomes, jobs \in CronJobChoices :
            PollReturn(id, outcome, jobs)
    \/ \E id \in Ids : PollPush(id)
    \/ \E id \in Ids : RemoveStart(FALSE, id)
    \/ \E id \in Ids : RemoveResume(id, FALSE)
    \/ \E a \in 1..MaxActs, t \in 1..(MaxPolls * MaxItems) : TimerFire(a, t)
    \/ \E a \in 1..MaxActs, t \in 1..(MaxPolls * MaxItems), data \in BOOLEAN :
            TimerFireEnd(a, t, data)
    \/ \E id \in Ids, j \in 1..MaxPolls : StopHandle(id, j)

vars == <<regVars, augVars>>

Init == RegInit /\ AugInit
Next == RegNext
Spec == Init /\ [][Next]_vars
SpecTimers == Init /\ [][TimersNext]_vars
SpecAug == Init /\ [][AugNext]_vars

\* SpecConc: as Spec, and the calls on one id interleaved at every await too:
\* remove(id) runs while add(id) awaits a hook, add(id) while remove(id) awaits
\* a closeFunction
ConcNext == Calls(TRUE)
SpecConc == Init /\ [][ConcNext]_vars



(***************************************************************************)
(* Properties of the registry.                                             *)
(***************************************************************************)
\* a call op(id) ends in this step with the given result
Ends(op, id, result) ==
    /\ last' # last
    /\ last'.op = op /\ last'.id = id /\ last'.result = result

\* the resources started by the calls add(id)
RunningListeners(id) ==
    { <<a, l>> \in (DOMAIN listeners) \X (1..MaxTriggers) :
        owner[a] = id /\ l \in DOMAIN listeners[a] /\ listeners[a][l].running }
RunningTimers(id) ==
    { <<a, t>> \in (DOMAIN timers) \X (1..(MaxPolls * MaxItems)) :
        owner[a] = id /\ t \in DOMAIN timers[a] /\ timers[a][t].running }

\* no add(id) has succeeded so far
NeverActivated(id) == \A a \in DOMAIN owner : owner[a] = id => status[a] # "ok"

\* the latest call on id to have ended is a successful remove(id), and no
\* add(id) has begun since
JustDeactivated(id) ==
    /\ last.op = "remove" /\ last.id = id /\ last.result = "ok"
    /\ add[id].pc = "idle"

\* C1: once a deactivate(id) has completed successfully, no cron timer and no
\* trigger listener started by an earlier activate(id) is still running.
C1_NoResourceAfterDeactivate ==
    \A id \in Ids :
        JustDeactivated(id) => RunningListeners(id) = {} /\ RunningTimers(id) = {}

\* C2: isActive(id) is false before any activation of id, true right after a
\* successful activate(id) and false right after a successful deactivate(id);
\* it is true exactly when get(id) yields an entry, and listActive() is the set
\* of the ids for which it is true.
C2_Queries ==
    \A id \in Ids :
        /\ (\A a \in DOMAIN owner : owner[a] # id) => ~isActive(id)
        /\ isActive(id) <=> get(id) # <<>>
        /\ id \in allActiveWorkflows <=> isActive(id)
C2_Steps ==
    \A id \in Ids :
        /\ Ends("add", id, "ok") => isActive(id)'
        /\ Ends("remove", id, "ok") => ~isActive(id)'
C2_IsActiveLifecycle == []C2_Queries /\ [][C2_Steps]_vars

\* C2 witness: one id has been activated with a trigger and then deactivated
\* with success while the other id is active with a trigger of its own
C2_Witness ==
    \E id \in Ids, other \in Ids :
        /\ id # other
        /\ JustDeactivated(id) /\ ~NeverActivated(id) /\ ~isActive(id)
        /\ isActive(other) /\ ~NeverActivated(other)
        /\ allActiveWorkflows = {other}
        /\ \E a \in DOMAIN owner :
                owner[a] = id /\ status[a] = "ok" /\ Len(listeners[a]) > 0
        /\ Len(get(other)[1].triggerResponses) > 0

\* C3: deactivate(id) on an id that no activate(id) has succeeded for fails
\* with the not-active error, calls no stop handle and leaves the registry as
\* it is.
C3_DeactivateNeverActivated ==
    [][\A id \in Ids :
         (RemoveStart(FALSE, id) /\ NeverActivated(id)) =>
            /\ last'.op = "remove" /\ last'.id = id /\ last'.result = "NotActive"
            /\ UNCHANGED <<workflowData, entries, listeners, timers>>]_vars

\* C4: an entry exists for id only once an activate(id) has processed all its
\* nodes: none while the call is in progress, none after it has failed.
C4_EntryOnlyWhenComplete ==
    \A id \in Ids : isActive(id) => status[workflowData[id]] = "ok"

\* C5: a poll node whose activation fails with the too-frequent-schedule error
\* has no timer registered, wherever the offending expression stands among its
\* schedule items.
C5_NoTimerWhenTooFrequent ==
    \A a \in DOMAIN status :
        status[a] = "TooFrequent" =>
            \A t \in DOMAIN timers[a] : timers[a][t].node # Len(immediate[a])

\* C6: the activation of a poll node runs the poll once and awaits it before
\* any timer is armed; if that run throws, activate fails with its error and
\* no timer is armed for the node.
C6_PollOnceBeforeTimers ==
    \A a \in DOMAIN immediate :
        /\ \A n \in DOMAIN immediate[a] :
            /\ immediate[a][n] \in {"pending", "threw"} =>
                  \A t \in DOMAIN timers[a] : timers[a][t].node # n
            /\ immediate[a][n] = "threw" =>
                  status[a] = "PollError" /\ n = Len(immediate[a])
            /\ immediate[a][n] = "pending" =>
                  /\ add[owner[a]].pc = "poll"
                  /\ add[owner[a]].act = a /\ add[owner[a]].i = n
        /\ \A t \in DOMAIN timers[a] :
              /\ timers[a][t].node \in DOMAIN immediate[a]
              /\ immediate[a][timers[a][t].node] = "done"

\* C6 witness: a direct execution has thrown in a call that had armed the
\* timers of an earlier poll node
C6_Witness ==
    \E a \in DOMAIN immediate :
        /\ Len(immediate[a]) = 2
        /\ immediate[a][1] = "done" /\ immediate[a][2] = "threw"
        /\ \E t \in DOMAIN timers[a] : timers[a][t].node = 1
        /\ status[a] = "PollError"

\* C8: every stop handle a trigger hook has returned is invoked exactly once
\* in the course of deactivating its id: not more than once, also when a
\* deactivate(id) that a throwing stop handle has aborted is called again, and
\* not zero times once a deactivate(id) has succeeded.
C8_AtMostOnce ==
    \A a \in DOMAIN listeners : \A l \in DOMAIN listeners[a] :
        listeners[a][l].stops <= 1
C8_OnceWhenRemoved ==
    \A id \in Ids :
        Ends("remove", id, "ok") =>
            LET trig == entries[workflowData[id]].triggerResponses
            IN  \A j \in DOMAIN trig :
                    trig[j].closeFunction =>
                        listeners'[trig[j].act][trig[j].listener].stops = 1
C8_StopsExactlyOnce == []C8_AtMostOnce /\ [][C8_OnceWhenRemoved]_vars

\* C7: the handle a poll node's activation returns stops every timer that
\* activation started: once its stop operation has been invoked no firing of a
\* timer of the node begins; a further invocation changes nothing, and no
\* invocation runs the poll or takes back a result that has been emitted.
C7_TimersOfStoppedHandle ==
    \A e \in DOMAIN entries : \A j \in DOMAIN entries[e].pollResponses :
        LET h == entries[e].pollResponses[j]
        IN  h.stops > 0 =>
              \A t \in DOMAIN timers[h.act] :
                  timers[h.act][t].node = j => ~timers[h.act][t].running
C7_Steps ==
    /\ \A a \in DOMAIN timers : \A t \in DOMAIN timers[a] :
          ~timers[a][t].running =>
              /\ ~timers'[a][t].running
              /\ timers'[a][t].fires = timers[a][t].fires
    /\ \A e \in DOMAIN entries : \A j \in DOMAIN entries[e].pollResponses :
          entries'[e].pollResponses[j].stops > entries[e].pollResponses[j].stops =>
              /\ emitted' = emitted /\ immediate' = immediate /\ nFires' = nFires
              /\ \A a \in DOMAIN timers : \A t \in DOMAIN timers[a] :
                    /\ timers'[a][t].fires = timers[a][t].fires
                    /\ timers'[a][t].inflight = timers[a][t].inflight
              /\ entries[e].pollResponses[j].stops > 0 => timers' = timers
C7_StopHandle == []C7_TimersOfStoppedHandle /\ [][C7_Steps]_vars

\* C7 witness: the handle of two cron jobs, one of which has fired and
\* emitted, has been stopped twice
C7_Witness ==
    \E e \in DOMAIN entries : \E j \in DOMAIN entries[e].pollResponses :
        LET h == entries[e].pollResponses[j]
        IN  /\ h.stops >= 2
            /\ Len(h.cronJobs) = 2
            /\ \E k \in DOMAIN h.cronJobs : timers[h.act][h.cronJobs[k]].fires > 0
            /\ emitted > 0


(***************************************************************************)
(* Properties of the wrappers.                                             *)
(***************************************************************************)
\* deeper than any value a consumer that only reads can see
ViewDepth == Len(Original) + 2

RECURSIVE View(_, _, _)
\* What a consumer sees of the object at address a when it enumerates its
\* keys and reads every one of them, down to the given depth: the kind, the
\* length (of a sequence) and the view of the value under each key.
View(h, a, d) ==
    IF d = 0 THEN [t |-> "cut", n |-> 0, v |-> <<>>]
    ELSE [t |-> IF IsArrayLike(h, a) THEN "array" ELSE "mapping",
          n |-> LengthOf(h, a),
          v |-> [key \in ReflectOwnKeys(h, a) |->
                    LET r == ReflectGet(h, a, key)
                    IN  IF r.value.t = "object" THEN View(r.heap, r.value.v, d - 1)
                        ELSE [t |-> r.value.t, n |-> 0, v |-> r.value.v]]]

\* the wrappers, top-level and nested, a consumer holds
Wrappers(c) == { a \in regs[c] : heap[a].kind \in {"proxy", "aproxy"} }

\* C9: whatever A wrote and deleted through its wrapper and through the nested
\* wrappers it read from it, every wrapper B holds shows B the original value
\* it wraps, keys and values, as if A had never been used, and the original
\* objects are unchanged.
C9_Isolation ==
    /\ \A b \in Wrappers("B") :
            View(heap, b, ViewDepth) = View(Original, heap[b].target, ViewDepth)
    /\ \A a \in DOMAIN Original : heap[a] = Original[a]

\* A changed what a nested wrapper of its own shows, and B then read through
\* its nested wrapper of the same original object
C9_Witness ==
    /\ lastOp.by = "B" /\ lastOp.op = "get"
    /\ heap[lastOp.ref].target # root
    /\ \E a \in Wrappers("A") :
            /\ heap[a].target = heap[lastOp.ref].target
            /\ View(heap, a, ViewDepth) # View(Original, heap[a].target, ViewDepth)


\* C10: right after a value other than undefined was written to a key through
\* a mapping wrapper, whatever was read, written and deleted before, the key
\* has no tombstone, reading it returns the value written, and the enumeration
\* of the wrapper includes it.
C10_WriteClearsTombstones ==
    (lastOp.op = "set" /\ lastOp.value # Undef /\ heap[lastOp.ref].kind = "proxy")
        => /\ ~Contains(heap[lastOp.ref].deleted, lastOp.key)
           /\ ReflectGet(heap, lastOp.ref, lastOp.key).value = lastOp.value
           /\ lastOp.key \in ReflectOwnKeys(heap, lastOp.ref)


\* the keys of the original mapping a mapping wrapper wraps, of its overlay,
\* and its tombstones
OriginalKeys(h, a) == DOMAIN h[h[a].target].props
OverlayKeys(h, a) == DOMAIN h[h[a].data].props
Tombstones(h, a) == { h[a].deleted[i] : i \in DOMAIN h[a].deleted }

\* this step is a delete of a key, or a write of undefined to it, through a
\* mapping wrapper
RemovesKey ==
    /\ nOps' = nOps + 1
    /\ \/ lastOp'.op = "delete"
       \/ lastOp'.op = "set" /\ lastOp'.value = Undef
    /\ heap[lastOp'.ref].kind = "proxy"

\* C11: the keys a mapping wrapper enumerates are the keys of the original and
\* of the overlay that have no tombstone.
C11_Enumerated ==
    \A a \in DOMAIN heap :
        heap[a].kind = "proxy" =>
            ReflectOwnKeys(heap, a) =
                (OriginalKeys(heap, a) \cup OverlayKeys(heap, a)) \ Tombstones(heap, a)

\* C11: deleting an enumerated key, or writing undefined to it, takes it out of
\* the enumeration and makes reading it yield undefined; deleting a key that is
\* neither in the original nor in the overlay changes nothing.
C11_Removal ==
    RemovesKey =>
        /\ lastOp'.key \in ReflectOwnKeys(heap, lastOp'.ref) =>
              /\ lastOp'.key \notin ReflectOwnKeys(heap', lastOp'.ref)
              /\ ReflectGet(heap', lastOp'.ref, lastOp'.key).value = Undef
        /\ (/\ lastOp'.key \notin OriginalKeys(heap, lastOp'.ref)
            /\ lastOp'.key \notin OverlayKeys(heap, lastOp'.ref)) => heap' = heap

\* C11: enumeration is original keys and overlay keys minus tombstones, and
\* removing a key acts on it as described.
C11_Enumeration == []C11_Enumerated /\ [][C11_Removal]_vars

\* an enumerated key of a mapping wrapper with a non-empty overlay has just
\* been deleted
C11_Witness ==
    /\ lastOp.op = "delete" /\ heap[lastOp.ref].kind = "proxy"
    /\ lastOp.key \in Tombstones(heap, lastOp.ref)
    /\ OverlayKeys(heap, lastOp.ref) # {}
    /\ ReflectOwnKeys(heap, lastOp.ref) # {}


(***************************************************************************)
(* Properties of the order of the stops and of the setups.                 *)
(***************************************************************************)
\* The stop operations entry object e stores, in the order of the spec: the
\* closeFunctions of its trigger responses in stored order, then those of its
\* poll responses in stored order.
StopOrder(ents, e) ==
    LET trig == ents[e].triggerResponses
        withClose == SelectSeq([j \in 1..Len(trig) |-> j],
                               LAMBDA j : trig[j].closeFunction)
    IN  [k \in 1..Len(withClose) |-> [phase |-> "trigger", i |-> withClose[k]]]
        \o [k \in 1..Len(ents[e].pollResponses) |-> [phase |-> "poll", i |-> k]]

\* how many times the stop operation at position s of entry object e has been
\* invoked
Invocations(lis, ents, e, s) ==
    IF s.phase = "trigger"
      THEN lis[ents[e].triggerResponses[s.i].act]
              [ents[e].triggerResponses[s.i].listener].stops
      ELSE ents[e].pollResponses[s.i].stops

\* the place in StopOrder of the stop the remove(id) in progress awaits, 0 when
\* it awaits none
Awaited(r, ents) ==
    IF r.pc = "idle" THEN 0
    ELSE CHOOSE k \in 1..Len(StopOrder(ents, r.entry)) :
            StopOrder(ents, r.entry)[k] = [phase |-> r.pc, i |-> r.i]

\* a remove(id) in progress works on the entry the registry holds for id
C12_EntryStays ==
    \A id \in Ids :
        rem[id].pc # "idle" => isActive(id) /\ workflowData[id] = rem[id].entry

\* every step of a remove(id) that does not end in an error invokes the stop
\* that follows the awaited one in StopOrder and no other, after the awaited
\* one has completed; it ends the call, deleting the entry, exactly when no
\* stop follows
C12_Steps ==
    \A id \in Ids :
        LET e == workflowData[id]
            order == StopOrder(entries, e)
            k == Awaited(rem[id], entries)
            invoked == { n \in 1..Len(order) :
                            Invocations(listeners', entries', e, order[n])
                                > Invocations(listeners, entries, e, order[n]) }
        IN  /\ ((rem'[id] # rem[id] \/ Ends("remove", id, "ok"))
                  /\ ~Ends("remove", id, "StopError"))
                => /\ invoked = IF k < Len(order) THEN {k + 1} ELSE {}
                   /\ Ends("remove", id, "ok") <=> k = Len(order)
                   /\ rem'[id].pc # "idle" => Awaited(rem'[id], entries') = k + 1
                   /\ (k > 0 /\ order[k].phase = "trigger") =>
                        ~listeners'[entries[e].triggerResponses[order[k].i].act]
                                   [entries[e].triggerResponses[order[k].i].listener].running
            /\ (isActive(id) /\ ~isActive(id)') => Ends("remove", id, "ok")

\* C12: a deactivate(id) that succeeds invokes the stop of every stored trigger
\* handle in stored order, then of every stored poll handle in stored order,
\* each one after the one before it has completed, and deletes the entry only
\* after the last stop has completed; until then isActive(id) is true.
C12_StopsInOrder == []C12_EntryStays /\ [][C12_Steps]_vars

\* a remove(id) has succeeded on an entry with a trigger handle and a poll
\* handle, each invoked
C12_Witness ==
    \E id \in Ids, a \in DOMAIN entries :
        /\ JustDeactivated(id) /\ owner[a] = id /\ status[a] = "ok"
        /\ \E j \in DOMAIN entries[a].triggerResponses :
              /\ entries[a].triggerResponses[j].closeFunction
              /\ Invocations(listeners, entries, a, [phase |-> "trigger", i |-> j]) = 1
        /\ Len(entries[a].pollResponses) > 0
        /\ entries[a].pollResponses[1].stops = 1


\* C13: when a stop operation throws during deactivate(id), the call fails
\* with that error in the same step, in which no stop is invoked, no later
\* step belongs to the call, and the entry of id stays in the registry.
C13_ThrowingStop ==
    [][\A id \in Ids :
         Ends("remove", id, "StopError") =>
            LET e == workflowData[id]
                order == StopOrder(entries, e)
            IN  /\ rem[id].pc # "idle" /\ rem'[id] = IdleRem
                /\ \A n \in 1..Len(order) :
                       Invocations(listeners', entries', e, order[n])
                          = Invocations(listeners, entries, e, order[n])
                /\ isActive(id)' /\ workflowData' = workflowData
                /\ entries' = entries]_vars

\* a remove(id) has failed on the throw of a stop that another, never invoked
\* stop follows in the entry, which is still there
C13_Witness ==
    \E id \in Ids :
        /\ last.op = "remove" /\ last.id = id /\ last.result = "StopError"
        /\ isActive(id)
        /\ \E n \in 1..Len(StopOrder(entries, workflowData[id])) :
              /\ n > 1
              /\ Invocations(listeners, entries, workflowData[id],
                             StopOrder(entries, workflowData[id])[n]) = 0


\* the hooks of add() call a in progress: the runTrigger the call awaits, and
\* the direct executions of poll nodes that have not settled
HooksInProgress(a) ==
    { <<"trigger", add[owner[a]].i>> :
        x \in { y \in {1} : add[owner[a]].act = a /\ add[owner[a]].pc = "trigger" } }
    \cup { <<"poll", n>> : n \in { m \in DOMAIN immediate[a] : immediate[a][m] = "pending" } }

\* where an add(id) call is: trigger hook i awaited, poll hook i awaited, or
\* the response of poll node i about to be pushed
C14_Position ==
    \A id \in Ids :
        LET a == add[id].act
        IN  /\ add[id].pc = "trigger" =>
                /\ add[id].i \in 1..add[id].nTrig
                /\ HooksInProgress(a) = {<<"trigger", add[id].i>>}
                /\ Len(entries[a].triggerResponses) <= add[id].i - 1
                /\ immediate[a] = <<>> /\ timers[a] = <<>>
            /\ add[id].pc = "poll" =>
                /\ add[id].i \in 1..add[id].nPoll
                /\ HooksInProgress(a) = {<<"poll", add[id].i>>}
                /\ Len(immediate[a]) = add[id].i
                /\ \A t \in DOMAIN timers[a] : timers[a][t].node < add[id].i
            /\ add[id].pc = "push" =>
                /\ HooksInProgress(a) = {}
                /\ Len(immediate[a]) = add[id].i

\* every step of an add(id) call that goes on goes to the next hook: the next
\* trigger node, the first poll node after the last trigger node, the push of
\* the response of the poll node just set up, the next poll node
C14_Steps ==
    \A id \in Ids :
        (add[id].pc # "idle" /\ add'[id].pc # "idle" /\ add'[id] # add[id]) =>
            /\ add'[id].act = add[id].act
            /\ add[id].pc = "trigger" =>
                 \/ /\ add[id].i < add[id].nTrig
                    /\ add'[id].pc = "trigger" /\ add'[id].i = add[id].i + 1
                 \/ /\ add[id].i = add[id].nTrig
                    /\ add'[id].pc = "poll" /\ add'[id].i = 1
            /\ add[id].pc = "poll" =>
                 add'[id].pc = "push" /\ add'[id].i = add[id].i
            /\ add[id].pc = "push" =>
                 add'[id].pc = "poll" /\ add'[id].i = add[id].i + 1

\* C14: within one activate(id) call the trigger nodes are set up one at a time
\* in order, then the poll nodes one at a time in order, no poll node before
\* the hook of the last trigger node has completed, and never two hooks of the
\* call in progress at once.
C14_SequentialSetup ==
    /\ [](C14_Position /\ \A a \in DOMAIN owner : Cardinality(HooksInProgress(a)) <= 1)
    /\ [][C14_Steps]_vars

\* the second poll node of a workflow with a trigger node is being set up
C14_Witness ==
    \E id \in Ids :
        /\ add[id].pc = "poll" /\ add[id].i = 2
        /\ Len(entries[add[id].act].triggerResponses) > 0
        /\ Len(entries[add[id].act].pollResponses) = 1


\* the results of an add() that a node's activation has made fail
NodeFailures == {"TriggerError", "PollError", "TooFrequent"}

\* C15: when the activation of a node fails during activate(id), activate ends
\* with that node's error, no later node is activated, and the listeners and
\* timers started for the nodes before it are not stopped: they are still
\* running once activate has failed.
C15_FailedActivation ==
    /\ [](\A a \in DOMAIN owner :
            status[a] \in NodeFailures =>
               /\ add[owner[a]].act # a
               /\ HooksInProgress(a) = {})
    /\ [][\A id \in Ids, err \in NodeFailures :
            Ends("add", id, err) =>
               LET a == add[id].act
               IN  /\ add[id].pc \in {"trigger", "poll"}
                   /\ err = "TriggerError" <=> add[id].pc = "trigger"
                   /\ add'[id] = IdleAdd /\ status'[a] = err
                   /\ \A l \in DOMAIN listeners[a] : listeners'[a][l] = listeners[a][l]
                   /\ \A t \in DOMAIN timers[a] : timers'[a][t] = timers[a][t]
                   /\ RunningListeners(id) \subseteq RunningListeners(id)'
                   /\ RunningTimers(id) \subseteq RunningTimers(id)']_vars
    /\ [][\A a \in DOMAIN owner :
            status[a] \in NodeFailures =>
               /\ Len(listeners'[a]) = Len(listeners[a])
               /\ Len(timers'[a]) = Len(timers[a])
               /\ Len(immediate'[a]) = Len(immediate[a])]_vars

\* an add() has just failed at its second trigger node, and the listener of its
\* first trigger node is running
C15_Witness ==
    \E id \in Ids :
        /\ last.op = "add" /\ last.id = id /\ last.result = "TriggerError"
        /\ add[id].pc = "idle"
        /\ \E a \in DOMAIN owner :
              /\ owner[a] = id /\ status[a] = "TriggerError"
              /\ \E l \in DOMAIN listeners[a] :
                    listeners[a][l].running /\ listeners[a][l].stops = 0


\* the activations whose handles get(id) reaches
ReachableActs(id) ==
    IF get(id) = <<>> THEN {}
    ELSE { get(id)[1].triggerResponses[k].act : k \in DOMAIN get(id)[1].triggerResponses }
         \cup (IF get(id)[1].hasPollResponses
                 THEN { get(id)[1].pollResponses[k].act :
                          k \in DOMAIN get(id)[1].pollResponses }
                 ELSE {})

\* add() call a has been followed by another add() of the same id
Superseded(a) == \E b \in DOMAIN owner : b > a /\ owner[b] = owner[a]

\* the stop handles of activation a invoked so far: per listener, per poll response
StopsInvoked(lis, ents, a) ==
    <<[l \in DOMAIN lis[a] |-> lis[a][l].stops],
      [k \in DOMAIN ents[a].pollResponses |-> ents[a].pollResponses[k].stops]>>

\* C16: an activate(id) on an id that is already active stores a new entry that
\* holds the handles of that activation only, invokes no stop handle of the
\* earlier activation, whose handles get(id) no longer reaches and which no
\* later deactivate(id) stops.
C16_SecondActivation ==
    /\ [](\A id \in Ids : ReachableActs(id) \subseteq {workflowData[id]})
    /\ [][\A id \in Ids :
            (isActive(id) /\ Len(owner') = Len(owner) + 1 /\ owner'[Len(owner')] = id) =>
               LET a == workflowData[id]
               IN  /\ workflowData'[id] = Len(owner') /\ workflowData'[id] # a
                   /\ get(id)'[1].triggerResponses = <<>>
                   /\ listeners'[a] = listeners[a] /\ timers'[a] = timers[a]
                   /\ entries'[a] = entries[a]]_vars
    /\ [][\A a \in DOMAIN owner :
            Superseded(a) =>
               /\ StopsInvoked(listeners', entries', a) = StopsInvoked(listeners, entries, a)
               /\ \A t \in DOMAIN timers[a] :
                     timers'[a][t].running = timers[a][t].running]_vars

\* id has been activated twice and then deactivated: the listener of the
\* second activation has been stopped, that of the first is running and its
\* stop handle has never been invoked
C16_Witness ==
    \E id \in Ids :
        /\ last.op = "remove" /\ last.id = id /\ last.result = "ok"
        /\ \E a, b \in DOMAIN owner :
              /\ a < b /\ owner[a] = id /\ owner[b] = id /\ status[a] = "ok"
              /\ \E l \in DOMAIN listeners[a] :
                    listeners[a][l].running /\ listeners[a][l].stops = 0
              /\ \E l \in DOMAIN listeners[b] : listeners[b][l].stops > 0


\* the proxy at address p is stored as an element of the shadow of a sequence
\* wrapper that consumer c holds
StoredElement(c, p) ==
    \E w \in Wrappers(c) :
        /\ heap[w].kind = "aproxy" /\ heap[w].data # 0
        /\ \E i \in DOMAIN heap[heap[w].data].elems :
              heap[heap[w].data].elems[i] = Ref(p)

\* C17: after an object v of the caller has been written at an index of a
\* wrapped sequence, a write or delete made through the element the sequence
\* wrapper holds at that index is not applied to v.
C17_WrittenElementTracked ==
    [][\A v \in CallerObjects("A") :
          ( /\ nOps' = nOps + 1
            /\ lastOp'.op \in {"set", "delete"}
            /\ heap[lastOp'.ref].kind = "tproxy"
            /\ heap[lastOp'.ref].target = v
            /\ StoredElement("A", lastOp'.ref) )
          => heap'[v] = heap[v]]_vars


RECURSIVE Through(_, _)
\* the object that operations on a reach: the target of a proxy with an empty
\* handler, a itself otherwise
Through(h, a) == IF h[a].kind = "tproxy" THEN Through(h, h[a].target) ELSE a

\* wrapper[key] is an object that reading it again hands out as it is, without
\* making a new wrapper
Memoized(h, w, key) ==
    LET r == ReflectGet(h, w, key)
    IN  r.value.t = "object" /\ r.heap = h

\* this step is a write or a delete of wrapper[key]
Touches(w, key) ==
    /\ nOps' = nOps + 1
    /\ lastOp'.op \in {"set", "delete"}
    /\ Through(heap, lastOp'.ref) = w /\ lastOp'.key = key

\* a read of a composite value through a wrapper leaves the nested wrapper it
\* returns memoized
C18_FirstRead ==
    \A c \in Consumers : \A w \in Wrappers(c) :
        ( /\ nOps' = nOps + 1
          /\ lastOp'.op = "get" /\ lastOp'.ref = w /\ lastOp'.by = c
          /\ lastOp'.value.t = "object" )
        => /\ Memoized(heap', w, lastOp'.key)
           /\ ReflectGet(heap', w, lastOp'.key).value = lastOp'.value

\* a memoized nested wrapper is what a read returns after every step that is
\* not a write or delete of its key, and the original is as it was
C18_LaterReads ==
    \A c \in Consumers : \A w \in Wrappers(c) : \A key \in KeysFor(heap, w) :
        (Memoized(heap, w, key) /\ ~Touches(w, key))
        => /\ Memoized(heap', w, key)
           /\ ReflectGet(heap', w, key).value = ReflectGet(heap, w, key).value
           /\ SubSeq(heap', 1, Len(Original)) = Original

\* C18: the first read of a composite-valued key or index through a wrapper
\* memoizes the nested wrapper; every later read of that key, with no write or
\* delete of the key in between, returns the same nested wrapper, so that what
\* is written through the result of one read is seen through the result of a
\* later one, and the original nested value stays as it was.
C18_Memoized == [][C18_FirstRead /\ C18_LaterReads]_vars

\* a key has been read, the nested wrapper read has been written to, and the
\* key has been read again
C18_Witness ==
    /\ lastOp.op = "get" /\ lastOp.value.t = "object"
    /\ lastOp.ref \in Wrappers(lastOp.by)
    /\ LET r == lastOp.value.v
       IN  \/ /\ heap[r].kind = "proxy"
              /\ \E key \in DOMAIN heap[heap[r].data].props :
                    heap[heap[r].data].props[key] = Num(2)
           \/ /\ heap[r].kind = "aproxy" /\ heap[r].data # 0
              /\ \E i \in DOMAIN heap[heap[r].data].elems :
                    heap[heap[r].data].elems[i] = Num(2)


\* C20: for a wrapped mapping, key in wrapper holds if and only if the key is
\* in the enumerated key set: a deleted original key is reported absent, a key
\* added through the wrapper only is reported present.
C20_MembershipAgrees ==
    \A c \in Consumers : \A w \in Wrappers(c) :
        heap[w].kind = "proxy" =>
            \A key \in Names :
                ReflectHas(heap, w, key) <=> key \in ReflectOwnKeys(heap, w)


\* every listener and cron job that add() call a has started is held by a
\* response of the entry stored for id
Registered(lis, tim, ents, wd, id, a) ==
    /\ wd[id] # 0
    /\ \A l \in DOMAIN lis[a] :
          \E k \in DOMAIN ents[wd[id]].triggerResponses :
             LET h == ents[wd[id]].triggerResponses[k]
             IN  h.closeFunction /\ h.act = a /\ h.listener = l
    /\ \A t \in DOMAIN tim[a] :
          /\ ents[wd[id]].hasPollResponses
          /\ \E k \in DOMAIN ents[wd[id]].pollResponses :
                LET h == ents[wd[id]].pollResponses[k]
                IN  h.act = a /\ t \in StoppedJobs(h.cronJobs)

\* C19: however add(id) and remove(id) interleave, add never reads an entry
\* that has been removed (it never ends with the TypeError of a property read
\* on undefined), and when it returns, every resource it has started is held by
\* the entry stored for id.
C19_ActivateDuringDeactivate ==
    /\ [](\A a \in DOMAIN status : status[a] # "TypeError")
    /\ [][\A id \in Ids, r \in {"ok", "TypeError"} :
            Ends("add", id, r) =>
               LET a == IF add[id].pc = "idle" THEN Len(owner') ELSE add[id].act
               IN  (listeners'[a] # <<>> \/ timers'[a] # <<>>) =>
                      Registered(listeners', timers', entries', workflowData', id, a)]_vars

=============================================================================
